---- MODULE Spec2Model ----
(***************************************************************************)
(* Model of HelloVulkan (src/ray_tracing__advance/hello_vulkan.cpp): the   *)
(* resource registry (models, instances, textures, implicit objects), the  *)
(* descriptor set layout and its writes, and the frame accumulation        *)
(* counter that gates the ray tracing dispatch.                            *)
(*                                                                         *)
(* Sequences are 1-based here and 0-based in the source: the model at      *)
(* source index i is m_objModel[i + 1].                                    *)
(***************************************************************************)
EXTENDS Integers, Sequences, FiniteSets, TLC

\* ------------------------------------------------------------------ bounds
\* Number of loadModel calls explored.
MaxModels == 2
\* Number of texture filenames one loaded OBJ may reference.
MaxTex == 1
\* Number of addImplSphere/addImplCube calls, and of addImplMaterial calls.
MaxImpl == 2
\* Number of createImplictBuffers calls explored.
MaxImplBuilds == 1
\* Distinct camera view matrices (byte patterns) 1..MaxCam. A view matrix is
\* invertible (updateUniformBuffer inverts it), so none is the all-zero matrix
\* the static refCamMatrix holds before the first tick.
MaxCam == 2
\* Distinct field-of-view values 1..MaxFov.
MaxFov == 2
\* Values of m_maxFrames explored: 1..MaxMaxFrames.
MaxMaxFrames == 2
\* The frame counter is an int; ticks without a reset are explored up to here.
FrameCap == MaxMaxFrames + 2

\* ------------------------------------------------------------------ state
VARIABLES
  m_objModel,      \* std::vector<ObjModel>
  m_objInstance,   \* std::vector<ObjInstance>
  m_textures,      \* std::vector<nvvk::Texture>
  objImpl,         \* m_implObjects.objImpl
  implMat,         \* m_implObjects.implMat
  implBuf,         \* m_implObjects.implBuf
  implMatBuf,      \* m_implObjects.implMatBuf
  implBuilds,      \* number of createImplictBuffers calls so far
  layoutBind,      \* m_descSetLayoutBind: the bindings added, in order
  writes,          \* the writes handed to the last vkUpdateDescriptorSets
  rasterCmds,      \* the commands recorded by the last rasterize call
  camMatrix,       \* CameraManip.getMatrix()
  camFov,          \* CameraManip.getFov()
  refCamMatrix,    \* updateFrame's static refCamMatrix
  refFov,          \* updateFrame's static refFov
  refFovInit,      \* whether the static refFov has been initialised
  frame,           \* m_pushConstants.frame
  maxFrames,       \* m_maxFrames
  rtCall,          \* what the last raytrace call did
  resizeCalls,     \* the calls made by the last onResize
  tick,            \* raytrace calls since start while the camera stood still
  steady,          \* no camera change and no resize since start
  lastOp,          \* the operation that ran last
  m_sceneDesc,     \* the scene description buffer
  destroyCalls,    \* what destroyResources released, in order
  uboCmds,         \* the commands recorded by the last updateUniformBuffer
  loadedFiles,     \* the texture filenames of every loaded OBJ, in load order
  uploadCalls      \* the calls made by the last upload operation

sceneVars == <<m_objModel, m_objInstance, m_textures>>
implVars  == <<objImpl, implMat, implBuf, implMatBuf, implBuilds>>
descVars  == <<layoutBind, writes>>
logVars   == <<m_sceneDesc, destroyCalls, uboCmds>>
loadVars  == <<loadedFiles, uploadCalls>>
frameVars == <<camMatrix, camFov, refCamMatrix, refFov, refFovInit, frame,
               maxFrames, rtCall, resizeCalls, tick, steady>>
vars == <<m_objModel, m_objInstance, m_textures, objImpl, implMat, implBuf,
          implMatBuf, implBuilds, layoutBind, writes, rasterCmds, camMatrix,
          camFov, refCamMatrix, refFov, refFovInit, frame, maxFrames, rtCall,
          resizeCalls, tick, steady, lastOp, m_sceneDesc, destroyCalls,
          uboCmds, loadedFiles, uploadCalls>>

\* ------------------------------------------------------------ input sets
\* What the OBJ loader returns for a file: index and vertex counts.
Meshes == {[nbIndices |-> 3, nbVertices |-> 3], [nbIndices |-> 6, nbVertices |-> 4]}
\* A texture filename either decodes (stbi_load returns pixels) or does not.
TexFiles == {"ok", "bad"}
TexLists == UNION {[1..n -> TexFiles] : n \in 0..MaxTex}
\* Longer filename lists, for the order of the textures of one model.
MaxFiles == MaxTex + 1
TexListsLong == UNION {[1..n -> TexFiles] : n \in 0..MaxFiles}
CamMatrices == 1..MaxCam
Fovs == 1..MaxFov
\* EObjType
ObjTypes == {"eSphere", "eCube"}
\* A material handed to addImplMaterial (not the default-constructed one).
UserMaterial == [diffuse |-> 1]
\* MaterialObj{} and ObjImplicit{}: what push_back({}) appends.
DefaultMaterial == [diffuse |-> 0]
DefaultImplicit == [objType |-> "eSphere", matId |-> 0]

\* A buffer handle before any createBuffer call.
NullBuffer == [kind |-> "null", id |-> 0, data |-> <<>>]
\* The bytes of the static refCamMatrix before updateFrame first stores a matrix.
ZeroMatrix == 0

\* --------------------------------------------------------- resource registry
\* The dummy texture of createTextureImages: one white, opaque pixel.
DummyTexture == [width |-> 1, height |-> 1, pixels |-> <<255, 255, 255, 255>>, mipmaps |-> FALSE]

\* One iteration of the upload loop of createTextureImages: the decoded image,
\* or a 1x1 magenta pixel when stbi_load fails.
LoadTexture(file) ==
  IF file = "ok"
    THEN [width |-> 2, height |-> 2, pixels |-> <<"decoded">>, mipmaps |-> TRUE]
    ELSE [width |-> 1, height |-> 1, pixels |-> <<255, 0, 255, 255>>, mipmaps |-> TRUE]

\* The guard of the dummy branch of createTextureImages.
NeedsDummyTexture(files, textures) == files = <<>> /\ textures = <<>>

\* Mutant of CreateTextureImages: a file that fails to decode gets no texture.
CreateTextureImagesSkipFailed(files, textures) ==
  LET Decodes(f) == f = "ok"
  IN  IF NeedsDummyTexture(files, textures)
        THEN Append(textures, DummyTexture)
        ELSE textures \o [i \in 1..Len(SelectSeq(files, Decodes)) |->
                            LoadTexture(SelectSeq(files, Decodes)[i])]

\* createTextureImages: m_textures after the call.
CreateTextureImages(files, textures) ==
  IF NeedsDummyTexture(files, textures)
    THEN Append(textures, DummyTexture)
    ELSE textures \o [i \in 1..Len(files) |-> LoadTexture(files[i])]

\* m_alloc.createBuffer: a fresh device buffer holding a copy of data.
CreateBuffer(kind, id, data) == [kind |-> kind, id |-> id, data |-> data]

\* Mutant of NewInstance: txtOffset is the model count.
NewInstanceOffsetByModel(models, textures) ==
  [objIndex |-> Len(models), txtOffset |-> Len(models)]

\* Mutant of NewInstance: objIndex is taken after the model is counted.
NewInstanceOneBased(models, textures) ==
  [objIndex |-> Len(models) + 1, txtOffset |-> Len(textures)]

\* The ObjInstance loadModel fills in before the upload.
NewInstance(models, textures) ==
  [objIndex |-> Len(models), txtOffset |-> Len(textures)]

\* The ObjModel loadModel fills in: the counts and the four device buffers.
NewModel(mesh, objNb) ==
  [nbIndices      |-> mesh.nbIndices,
   nbVertices     |-> mesh.nbVertices,
   vertexBuffer   |-> CreateBuffer("vertex", objNb, <<mesh.nbVertices>>),
   indexBuffer    |-> CreateBuffer("index", objNb, <<mesh.nbIndices>>),
   matColorBuffer |-> CreateBuffer("mat", objNb, <<>>),
   matIndexBuffer |-> CreateBuffer("matIdx", objNb, <<>>)]

\* Mutant of LoadModelCalls: the staging memory is released before the wait.
LoadModelCallsReleaseFirst ==
  <<"loader.loadModel", "createCommandBuffer", "createBuffer vertex",
    "createBuffer index", "createBuffer mat", "createBuffer matIdx",
    "createTextureImages", "finalizeAndReleaseStaging", "submitAndWait",
    "m_objModel.emplace_back", "m_objInstance.emplace_back">>

\* The calls of loadModel, in order.
LoadModelCalls ==
  <<"loader.loadModel", "createCommandBuffer", "createBuffer vertex",
    "createBuffer index", "createBuffer mat", "createBuffer matIdx",
    "createTextureImages", "submitAndWait", "finalizeAndReleaseStaging",
    "m_objModel.emplace_back", "m_objInstance.emplace_back">>

\* HelloVulkan::loadModel
LoadModel(mesh, files) ==
  LET instance == NewInstance(m_objModel, m_textures)
      model    == NewModel(mesh, instance.objIndex)
  IN  /\ Len(m_objModel) < MaxModels
      /\ m_textures' = CreateTextureImages(files, m_textures)
      /\ m_objModel' = Append(m_objModel, model)
      /\ m_objInstance' = Append(m_objInstance, instance)
      /\ lastOp' = "loadModel"
      /\ loadedFiles' = Append(loadedFiles, files)
      /\ uploadCalls' = LoadModelCalls
      /\ UNCHANGED <<implVars, descVars, rasterCmds, frameVars, logVars>>

\* HelloVulkan::addImplSphere
AddImplSphere(matId) ==
  /\ Len(objImpl) < MaxImpl
  /\ objImpl' = Append(objImpl, [objType |-> "eSphere", matId |-> matId])
  /\ lastOp' = "addImplSphere"
  /\ UNCHANGED <<sceneVars, implMat, implBuf, implMatBuf, implBuilds, descVars,
                 rasterCmds, frameVars, logVars, loadVars>>

\* HelloVulkan::addImplCube
AddImplCube(matId) ==
  /\ Len(objImpl) < MaxImpl
  /\ objImpl' = Append(objImpl, [objType |-> "eCube", matId |-> matId])
  /\ lastOp' = "addImplCube"
  /\ UNCHANGED <<sceneVars, implMat, implBuf, implMatBuf, implBuilds, descVars,
                 rasterCmds, frameVars, logVars, loadVars>>

\* HelloVulkan::addImplMaterial
AddImplMaterial(mat) ==
  /\ Len(implMat) < MaxImpl
  /\ implMat' = Append(implMat, mat)
  /\ lastOp' = "addImplMaterial"
  /\ UNCHANGED <<sceneVars, objImpl, implBuf, implMatBuf, implBuilds, descVars,
                 rasterCmds, frameVars, logVars, loadVars>>

\* Mutant of NotEmpty: the empty check is missing.
NotEmptyUnchecked(seq, placeholder) == seq

\* "Not allowing empty buffers": the sequence createImplictBuffers uploads.
NotEmpty(seq, placeholder) == IF seq = <<>> THEN <<placeholder>> ELSE seq

\* The calls of createImplictBuffers, in order.
CreateImplictBuffersCalls ==
  <<"createCommandBuffer", "createBuffer implicitObj", "createBuffer implicitMat",
    "submitAndWait", "finalizeAndReleaseStaging">>

\* HelloVulkan::createImplictBuffers
CreateImplictBuffers ==
  LET objs == NotEmpty(objImpl, DefaultImplicit)
      mats == NotEmpty(implMat, DefaultMaterial)
  IN  /\ implBuilds < MaxImplBuilds
      /\ objImpl' = objs
      /\ implMat' = mats
      /\ implBuf' = CreateBuffer("implicitObj", implBuilds, objs)
      /\ implMatBuf' = CreateBuffer("implicitMat", implBuilds, mats)
      /\ implBuilds' = implBuilds + 1
      /\ lastOp' = "createImplictBuffers"
      /\ uploadCalls' = CreateImplictBuffersCalls
      /\ UNCHANGED <<sceneVars, descVars, rasterCmds, frameVars, logVars, loadedFiles>>

\* ------------------------------------------------------ descriptor bindings
\* Mutant of LayoutBindings: binding 1 has no slot for the implicit materials.
LayoutBindingsNoImplicitSlot(nbObj, nbTxt) ==
  << [binding |-> 0, descriptorCount |-> 1],
     [binding |-> 1, descriptorCount |-> nbObj],
     [binding |-> 2, descriptorCount |-> 1],
     [binding |-> 3, descriptorCount |-> nbTxt],
     [binding |-> 4, descriptorCount |-> nbObj],
     [binding |-> 5, descriptorCount |-> nbObj],
     [binding |-> 6, descriptorCount |-> nbObj],
     [binding |-> 7, descriptorCount |-> 1] >>

\* The eight addBinding calls of createDescriptorSetLayout, in call order.
LayoutBindings(nbObj, nbTxt) ==
  << [binding |-> 0, descriptorCount |-> 1],
     [binding |-> 1, descriptorCount |-> nbObj + 1],
     [binding |-> 2, descriptorCount |-> 1],
     [binding |-> 3, descriptorCount |-> nbTxt],
     [binding |-> 4, descriptorCount |-> nbObj],
     [binding |-> 5, descriptorCount |-> nbObj],
     [binding |-> 6, descriptorCount |-> nbObj],
     [binding |-> 7, descriptorCount |-> 1] >>

\* The count m_descSetLayoutBind holds for a binding (the first entry found).
DeclaredCount(bindings, b) ==
  LET i == CHOOSE k \in 1..Len(bindings) :
             /\ bindings[k].binding = b
             /\ \A j \in 1..(k - 1) : bindings[j].binding # b
  IN  bindings[i].descriptorCount

\* HelloVulkan::createDescriptorSetLayout. The layout, the pool and the set are
\* created once: m_descSetLayoutBind is never cleared.
CreateDescriptorSetLayout ==
  LET nbTxt == Len(m_textures)
      nbObj == Len(m_objModel)
  IN  /\ layoutBind = <<>>
      /\ layoutBind' = LayoutBindings(nbObj, nbTxt)
      /\ lastOp' = "createDescriptorSetLayout"
      /\ UNCHANGED <<sceneVars, implVars, writes, rasterCmds, frameVars, logVars,
                     loadVars>>

\* makeWrite: one descriptor, taken from pInfo.
MakeWrite(bindings, b, info) ==
  [dstBinding |-> b, descriptorCount |-> 1, pInfo |-> <<info>>]

\* makeWriteArray: the count is the one declared for the binding; the array is
\* passed as a bare pointer, whatever its length.
MakeWriteArray(bindings, b, infos) ==
  [dstBinding |-> b, descriptorCount |-> DeclaredCount(bindings, b), pInfo |-> infos]

\* Mutant of MaterialInfos: the implicit material buffer is pushed first.
MaterialInfosImplicitFirst(models, implicitMat) ==
  <<implicitMat>> \o [i \in 1..Len(models) |-> models[i].matColorBuffer]

\* dbiMat: every model's material buffer, then the implicit material buffer.
MaterialInfos(models, implicitMat) ==
  [i \in 1..Len(models) |-> models[i].matColorBuffer] \o <<implicitMat>>

\* dbiMatIdx, dbiVert, dbiIdx: one entry per model, in model order.
MatIndexInfos(models) == [i \in 1..Len(models) |-> models[i].matIndexBuffer]
VertexInfos(models) == [i \in 1..Len(models) |-> models[i].vertexBuffer]
IndexInfos(models) == [i \in 1..Len(models) |-> models[i].indexBuffer]

\* diit: one descriptor per texture, in texture order.
TextureInfos(textures) == [i \in 1..Len(textures) |-> [texture |-> i - 1]]

\* The writes vector of updateDescriptorSet, in emplace order.
DescriptorWrites(bindings, models, textures, implObjBuf, implicitMat) ==
  << MakeWrite(bindings, 0, "cameraMat"),
     MakeWrite(bindings, 2, "sceneDesc"),
     MakeWriteArray(bindings, 1, MaterialInfos(models, implicitMat)),
     MakeWriteArray(bindings, 4, MatIndexInfos(models)),
     MakeWriteArray(bindings, 5, VertexInfos(models)),
     MakeWriteArray(bindings, 6, IndexInfos(models)),
     MakeWriteArray(bindings, 3, TextureInfos(textures)),
     MakeWrite(bindings, 7, implObjBuf) >>

\* HelloVulkan::updateDescriptorSet. makeWrite looks the binding up in
\* m_descSetLayoutBind, so the layout has been created.
UpdateDescriptorSet ==
  /\ layoutBind # <<>>
  /\ writes' = DescriptorWrites(layoutBind, m_objModel, m_textures, implBuf, implMatBuf)
  /\ lastOp' = "updateDescriptorSet"
  /\ UNCHANGED <<sceneVars, implVars, layoutBind, rasterCmds, frameVars, logVars,
                 loadVars>>

\* ----------------------------------------------------------- rasterization
\* Mutant of DrawOf: the draw covers the vertex count of the model.
DrawOfVertexCount(instances, models, i) ==
  LET inst  == instances[i + 1]
      model == models[inst.objIndex + 1]
  IN  [instanceId   |-> i,
       vertexBuffer |-> model.vertexBuffer,
       indexBuffer  |-> model.indexBuffer,
       indexCount   |-> model.nbVertices]

\* One iteration of the loop of rasterize, for the instance at source index i.
DrawOf(instances, models, i) ==
  LET inst  == instances[i + 1]
      model == models[inst.objIndex + 1]
  IN  [instanceId   |-> i,
       vertexBuffer |-> model.vertexBuffer,
       indexBuffer  |-> model.indexBuffer,
       indexCount   |-> model.nbIndices]

\* The commands one rasterize call records.
RasterizeCmds(instances, models) ==
  [binds |-> <<"vkCmdBindPipeline", "vkCmdBindDescriptorSets">>,
   draws |-> [k \in 1..Len(instances) |-> DrawOf(instances, models, k - 1)]]

\* HelloVulkan::rasterize
Rasterize ==
  /\ rasterCmds' = RasterizeCmds(m_objInstance, m_objModel)
  /\ lastOp' = "rasterize"
  /\ UNCHANGED <<sceneVars, implVars, descVars, frameVars, logVars, loadVars>>

\* ----------------------------------------------------------- camera uniform
\* The uniform buffer of the camera matrices (created once, by
\* createUniformBuffer).
CameraMatBuffer == CreateBuffer("cameraMat", 0, <<>>)

\* sizeof(CameraMatrices): four mat4f of 16 floats of 4 bytes.
SizeofCameraMatrices == 4 * 16 * 4

\* The host copy of the camera block: view and projection come from the
\* camera matrix and the field of view.
HostUBO(m, fov) == [view |-> m, proj |-> fov]

\* A VkBufferMemoryBarrier handed to vkCmdPipelineBarrier.
BufferBarrier(src, dst, buffer, offset, size) ==
  [cmd           |-> "vkCmdPipelineBarrier",
   srcAccessMask |-> src,
   dstAccessMask |-> dst,
   buffer        |-> buffer,
   offset        |-> offset,
   size          |-> size]

\* vkCmdUpdateBuffer
UpdateBuffer(buffer, offset, size, data) ==
  [cmd    |-> "vkCmdUpdateBuffer",
   buffer |-> buffer,
   offset |-> offset,
   size   |-> size,
   data   |-> data]

\* Mutant of UniformBufferCmds: the update is recorded after both barriers.
UniformBufferCmdsUpdateLast(m, fov) ==
  <<BufferBarrier("VK_ACCESS_SHADER_READ_BIT", "VK_ACCESS_TRANSFER_WRITE_BIT",
                  CameraMatBuffer, 0, SizeofCameraMatrices),
    BufferBarrier("VK_ACCESS_TRANSFER_WRITE_BIT", "VK_ACCESS_SHADER_READ_BIT",
                  CameraMatBuffer, 0, SizeofCameraMatrices),
    UpdateBuffer(CameraMatBuffer, 0, SizeofCameraMatrices, HostUBO(m, fov))>>

\* The commands one updateUniformBuffer call records.
UniformBufferCmds(m, fov) ==
  <<BufferBarrier("VK_ACCESS_SHADER_READ_BIT", "VK_ACCESS_TRANSFER_WRITE_BIT",
                  CameraMatBuffer, 0, SizeofCameraMatrices),
    UpdateBuffer(CameraMatBuffer, 0, SizeofCameraMatrices, HostUBO(m, fov)),
    BufferBarrier("VK_ACCESS_TRANSFER_WRITE_BIT", "VK_ACCESS_SHADER_READ_BIT",
                  CameraMatBuffer, 0, SizeofCameraMatrices)>>

\* HelloVulkan::updateUniformBuffer
UpdateUniformBuffer ==
  /\ uboCmds' = UniformBufferCmds(camMatrix, camFov)
  /\ lastOp' = "updateUniformBuffer"
  /\ UNCHANGED <<sceneVars, implVars, descVars, rasterCmds, frameVars, m_sceneDesc,
                 destroyCalls, loadVars>>

\* ------------------------------------------------------- scene description
\* The calls of createSceneDescriptionBuffer, in order.
CreateSceneDescriptionBufferCalls ==
  <<"createCommandBuffer", "createBuffer sceneDesc", "submitAndWait",
    "finalizeAndReleaseStaging">>

\* HelloVulkan::createSceneDescriptionBuffer: uploads the Instance sequence as
\* it is at the call.
CreateSceneDescriptionBuffer ==
  /\ m_sceneDesc' = CreateBuffer("sceneDesc", 0, m_objInstance)
  /\ uploadCalls' = CreateSceneDescriptionBufferCalls
  /\ lastOp' = "createSceneDescriptionBuffer"
  /\ UNCHANGED <<sceneVars, implVars, descVars, rasterCmds, frameVars, destroyCalls,
                 uboCmds, loadedFiles>>

\* ----------------------------------------------------------------- teardown
\* A Vulkan handle or helper object that is not a buffer of the registry.
Handle(name) == [kind |-> name, id |-> 0, data |-> <<>>]

\* The image of the texture at position i of m_textures.
TextureHandle(textures, i) == [kind |-> "texture", id |-> i, data |-> <<textures[i]>>]

\* One release call of destroyResources.
Release(class, handle) == [class |-> class, handle |-> handle]

\* The four m_alloc.destroy calls of the loop over m_objModel, model after model.
ModelBufferReleases(models) ==
  [k \in 1..(4 * Len(models)) |->
     LET m == models[((k - 1) \div 4) + 1]
         f == (k - 1) % 4
     IN  Release("buffer", IF f = 0 THEN m.vertexBuffer
                           ELSE IF f = 1 THEN m.indexBuffer
                           ELSE IF f = 2 THEN m.matColorBuffer
                           ELSE m.matIndexBuffer)]

\* The m_alloc.destroy calls of the loop over m_textures.
TextureReleases(textures) ==
  [i \in 1..Len(textures) |-> Release("image", TextureHandle(textures, i))]

\* Mutant of DestroyCalls: the textures are destroyed before the buffers.
DestroyCallsImagesFirst(models, textures, sceneDesc, implB, implMB) ==
  <<Release("pipeline", Handle("m_graphicsPipeline")),
    Release("layout", Handle("m_pipelineLayout")),
    Release("pool", Handle("m_descPool")),
    Release("layout", Handle("m_descSetLayout"))>>
  \o TextureReleases(textures)
  \o <<Release("buffer", CameraMatBuffer),
       Release("buffer", sceneDesc),
       Release("buffer", implB),
       Release("buffer", implMB)>>
  \o ModelBufferReleases(models)
  \o <<Release("pass", Handle("m_offscreen")),
       Release("pass", Handle("m_raytrace")),
       Release("allocator", Handle("m_alloc"))>>

\* The release calls of destroyResources, in order.
DestroyCalls(models, textures, sceneDesc, implB, implMB) ==
  <<Release("pipeline", Handle("m_graphicsPipeline")),
    Release("layout", Handle("m_pipelineLayout")),
    Release("pool", Handle("m_descPool")),
    Release("layout", Handle("m_descSetLayout")),
    Release("buffer", CameraMatBuffer),
    Release("buffer", sceneDesc),
    Release("buffer", implB),
    Release("buffer", implMB)>>
  \o ModelBufferReleases(models)
  \o TextureReleases(textures)
  \o <<Release("pass", Handle("m_offscreen")),
       Release("pass", Handle("m_raytrace")),
       Release("allocator", Handle("m_alloc"))>>

\* HelloVulkan::destroyResources, called once, at shutdown.
DestroyResources ==
  /\ destroyCalls = <<>>
  /\ destroyCalls' = DestroyCalls(m_objModel, m_textures, m_sceneDesc, implBuf, implMatBuf)
  /\ lastOp' = "destroyResources"
  /\ UNCHANGED <<sceneVars, implVars, descVars, rasterCmds, frameVars, m_sceneDesc,
                 uboCmds, loadVars>>

\* ------------------------------------------------------- frame accumulation
\* m_pushConstants.frame after construction.
InitFrame == -1

\* HelloVulkan::resetFrame: the value it stores in m_pushConstants.frame.
ResetFrame == -1

\* Mutant of CameraChanged: only the view matrix is compared.
CameraChangedMatrixOnly(refM, refF, m, fov) == refM # m

\* The condition of updateFrame: memcmp over the bytes of the two matrices,
\* or a field of view that compares unequal.
CameraChanged(refM, refF, m, fov) == refM # m \/ refF # fov

\* Mutant of UpdateFrame: the counter stops at m_maxFrames.
UpdateFrameClamped(f, reset) ==
  IF reset THEN 0 ELSE IF f >= maxFrames THEN f ELSE f + 1

\* Mutant of UpdateFrame: the increment sits in the else branch.
UpdateFrameElseIncrement(f, reset) == IF reset THEN ResetFrame ELSE f + 1

\* m_pushConstants.frame after updateFrame, given whether it reset.
UpdateFrame(f, reset) == (IF reset THEN ResetFrame ELSE f) + 1

\* Mutants of SkipRaytrace: the gate is off by one, either way.
SkipRaytraceLate(f, mx) == f > mx
SkipRaytraceEarly(f, mx) == f + 1 >= mx

\* The gate of raytrace: no dispatch once the frame reached m_maxFrames.
SkipRaytrace(f, mx) == f >= mx

\* The camera manipulator moves (input polled by the next tick).
SetCamera(m, fov) ==
  /\ camMatrix' = m
  /\ camFov' = fov
  /\ steady' = (steady /\ m = camMatrix /\ fov = camFov)
  /\ tick' = IF steady' THEN tick ELSE 0
  /\ lastOp' = "setCamera"
  /\ UNCHANGED <<sceneVars, implVars, descVars, rasterCmds, refCamMatrix, refFov,
                 refFovInit, frame, maxFrames, rtCall, resizeCalls, logVars,
                 loadVars>>

\* HelloVulkan::raytrace: updateFrame, the gate, and the dispatch. The static
\* refFov is initialised from the camera by the first call.
Raytrace ==
  LET rf    == IF refFovInit THEN refFov ELSE camFov
      reset == CameraChanged(refCamMatrix, rf, camMatrix, camFov)
      f     == UpdateFrame(frame, reset)
  IN  /\ (reset \/ frame < FrameCap)
      /\ frame' = f
      /\ refCamMatrix' = IF reset THEN camMatrix ELSE refCamMatrix
      /\ refFov' = IF reset THEN camFov ELSE rf
      /\ refFovInit' = TRUE
      /\ rtCall' = [reset |-> reset, before |-> frame,
                    issued |-> ~SkipRaytrace(f, maxFrames), frame |-> f]
      /\ tick' = IF steady THEN tick + 1 ELSE 0
      /\ lastOp' = "raytrace"
      /\ UNCHANGED <<sceneVars, implVars, descVars, rasterCmds, camMatrix, camFov,
                     maxFrames, resizeCalls, steady, logVars, loadVars>>

\* Mutant of OnResizeCalls: the accumulation reset comes first.
OnResizeCallsResetFirst ==
  <<"resetFrame", "m_offscreen.createFramebuffer",
    "m_offscreen.updateDescriptorSet", "m_raytrace.updateRtDescriptorSet">>

\* The calls of onResize, in order.
OnResizeCalls ==
  <<"m_offscreen.createFramebuffer", "m_offscreen.updateDescriptorSet",
    "m_raytrace.updateRtDescriptorSet", "resetFrame">>

\* HelloVulkan::onResize
OnResize ==
  /\ resizeCalls' = OnResizeCalls
  /\ frame' = ResetFrame
  /\ steady' = FALSE
  /\ tick' = 0
  /\ lastOp' = "onResize"
  /\ UNCHANGED <<sceneVars, implVars, descVars, rasterCmds, camMatrix, camFov,
                 refCamMatrix, refFov, refFovInit, maxFrames, rtCall, logVars,
                 loadVars>>

\* ----------------------------------------------------------- specifications
\* rtCall before the first raytrace call.
NoCall == [reset |-> FALSE, before |-> InitFrame, issued |-> FALSE, frame |-> InitFrame]

Init ==
  /\ m_objModel = <<>>
  /\ m_objInstance = <<>>
  /\ m_textures = <<>>
  /\ objImpl = <<>>
  /\ implMat = <<>>
  /\ implBuf = NullBuffer
  /\ implMatBuf = NullBuffer
  /\ implBuilds = 0
  /\ layoutBind = <<>>
  /\ writes = <<>>
  /\ rasterCmds = [binds |-> <<>>, draws |-> <<>>]
  /\ camMatrix \in CamMatrices
  /\ camFov \in Fovs
  /\ refCamMatrix = ZeroMatrix
  /\ refFov = 0
  /\ refFovInit = FALSE
  /\ frame = InitFrame
  /\ maxFrames \in 1..MaxMaxFrames
  /\ rtCall = NoCall
  /\ resizeCalls = <<>>
  /\ tick = 0
  /\ steady = TRUE
  /\ lastOp = "init"
  /\ m_sceneDesc = NullBuffer
  /\ destroyCalls = <<>>
  /\ uboCmds = <<>>
  /\ loadedFiles = <<>>
  /\ uploadCalls = <<>>

\* Scene setup: the registry, the implicit buffers and the descriptor set. None
\* of these operations reads or writes the camera or the frame counter, which
\* stay as constructed.
InitScene == Init /\ camMatrix = 1 /\ camFov = 1 /\ maxFrames = 1

NextScene ==
  \/ \E mesh \in Meshes, files \in TexLists : LoadModel(mesh, files)
  \/ CreateImplictBuffers
  \/ CreateDescriptorSetLayout
  \/ UpdateDescriptorSet

\* Loading and drawing: every loadModel input, and the raster draws.
NextRaster ==
  \/ \E mesh \in Meshes, files \in TexLists : LoadModel(mesh, files)
  \/ CreateSceneDescriptionBuffer
  \/ UpdateUniformBuffer
  \/ Rasterize

\* The implicit objects: primitives and materials are added, then uploaded.
NextImplicit ==
  \/ \E matId \in 0..1 : AddImplSphere(matId)
  \/ \E matId \in 0..1 : AddImplCube(matId)
  \/ AddImplMaterial(UserMaterial)
  \/ CreateImplictBuffers

\* The render loop: camera input, ray tracing ticks, raster ticks and resizes
\* over a scene of texture-less models.
NextFrame ==
  \/ \E m \in CamMatrices, fov \in Fovs : SetCamera(m, fov)
  \/ Raytrace
  \/ OnResize
  \/ Rasterize
  \/ LoadModel(CHOOSE mesh \in Meshes : mesh.nbIndices = 3, <<>>)

\* Scene loading alone, with longer texture lists.
NextTextures ==
  \E mesh \in Meshes, files \in TexListsLong : LoadModel(mesh, files)

\* Shutdown: the object is set up, then destroyed; nothing is called on it
\* afterwards.
Alive == destroyCalls = <<>>

NextTeardown ==
  \/ Alive /\ \E mesh \in Meshes, files \in TexLists : LoadModel(mesh, files)
  \/ Alive /\ CreateImplictBuffers
  \/ Alive /\ CreateSceneDescriptionBuffer
  \/ DestroyResources

Next ==
  NextScene \/ NextRaster \/ NextImplicit \/ NextFrame \/ NextTextures \/ NextTeardown

SpecScene == InitScene /\ [][NextScene]_vars
SpecRaster == InitScene /\ [][NextRaster]_vars
SpecImplicit == InitScene /\ [][NextImplicit]_vars
SpecFrame == Init /\ [][NextFrame]_vars
SpecTextures == InitScene /\ [][NextTextures]_vars
SpecTeardown == InitScene /\ [][NextTeardown]_vars
Spec == Init /\ [][Next]_vars

\* ------------------------------------------------------------------ claims
\* The reference updateFrame compares the camera with: its two statics, the
\* field of view being initialised from the camera by the first call.
StoredRefFov == IF refFovInit THEN refFov ELSE camFov
CameraDiffersFromRef == refCamMatrix # camMatrix \/ StoredRefFov # camFov

\* C2: a ray tracing tick resets the frame counter if and only if the camera's
\* view matrix or field of view differs from the stored reference; on a reset
\* the reference becomes the current matrix and field of view, and a tick with
\* the camera equal to the reference leaves the reference alone and counts on.
C2_ResetIffCameraDiffers ==
  [][lastOp' = "raytrace" =>
       /\ rtCall'.reset <=> CameraDiffersFromRef
       /\ CameraDiffersFromRef =>
            /\ frame' = 0
            /\ refCamMatrix' = camMatrix
            /\ refFov' = camFov
       /\ ~CameraDiffersFromRef =>
            /\ frame' = frame + 1
            /\ refCamMatrix' = refCamMatrix
            /\ refFov' = StoredRefFov]_vars

\* C2 witness: after some accumulation a tick found the camera changed, reset,
\* and stored the camera as the new reference.
C2_Witness ==
  /\ lastOp = "raytrace"
  /\ rtCall.reset
  /\ rtCall.before >= 1
  /\ frame = 0
  /\ refCamMatrix = camMatrix
  /\ refFov = camFov

\* C3: a tick without a reset increases the frame counter by exactly 1, the
\* counter decreases only in a reset, onResize's reset leaves -1, a tick that
\* resets leaves 0 (-1, then the increment), and the tick after a reset to -1
\* leaves 0.
C3_CounterMonotoneBetweenResets ==
  [][/\ (lastOp' = "raytrace" /\ ~rtCall'.reset) => frame' = frame + 1
     /\ (lastOp' = "raytrace" /\ rtCall'.reset) => frame' = 0
     /\ (lastOp' = "raytrace" /\ frame = -1) => frame' = 0
     /\ lastOp' = "onResize" => frame' = -1
     /\ frame' < frame =>
          \/ lastOp' = "onResize"
          \/ lastOp' = "raytrace" /\ rtCall'.reset]_vars

\* C3 witness: a tick after onResize, with the camera still, left the counter 0.
C3_Witness ==
  /\ lastOp = "raytrace"
  /\ ~rtCall.reset
  /\ rtCall.before = -1
  /\ resizeCalls # <<>>
  /\ frame = 0

\* C4: with the camera unchanged since start and m_maxFrames = M, the k-th
\* raytrace call carries frame k - 1 and dispatches if and only if k <= M; a
\* rasterize call does not consult the gate: it can run in every state and
\* records its binds and one draw per instance.
C4_DispatchUntilMaxFrames ==
  /\ (steady /\ tick >= 1) =>
        /\ rtCall.frame = tick - 1
        /\ rtCall.issued <=> tick <= maxFrames
  /\ ENABLED Rasterize
  /\ lastOp = "rasterize" =>
        /\ rasterCmds.binds # <<>>
        /\ Len(rasterCmds.draws) = Len(m_objInstance)

\* C4 witness: the camera never moved, tick M + 1 was skipped, and rasterize
\* then drew the scene.
C4_Witness ==
  /\ steady
  /\ tick = maxFrames + 1
  /\ ~rtCall.issued
  /\ frame >= maxFrames
  /\ lastOp = "rasterize"
  /\ Len(rasterCmds.draws) >= 1

\* C10: a tick that finds the camera different from the stored reference
\* dispatches in that same tick with frame = 0, whatever the counter was before
\* and for every m_maxFrames >= 1.
C10_ResetTickDispatchesFrameZero ==
  [][(lastOp' = "raytrace" /\ CameraDiffersFromRef /\ maxFrames >= 1) =>
       /\ rtCall'.issued
       /\ rtCall'.frame = 0
       /\ frame' = 0]_vars

\* C10 witness: the counter had passed m_maxFrames, the camera moved, and the
\* tick dispatched with frame 0.
C10_Witness ==
  /\ lastOp = "raytrace"
  /\ rtCall.reset
  /\ rtCall.before >= maxFrames
  /\ rtCall.issued
  /\ rtCall.frame = 0

\* The write updateDescriptorSet made for a binding.
WriteFor(b) == writes[CHOOSE i \in 1..Len(writes) : writes[i].dstBinding = b]
ArrayBindings == {1, 3, 4, 5, 6}

\* C1: the array updateDescriptorSet writes to binding 1 has N + 1 entries for
\* N models: entry i is the material buffer of model i, the last entry is the
\* implicit material buffer; with the layout created after the last loadModel
\* the write's descriptor count is N + 1 too.
C1_MaterialArrayEndsWithImplicit ==
  lastOp = "updateDescriptorSet" =>
    LET w == WriteFor(1)
        N == Len(m_objModel)
    IN  /\ Len(w.pInfo) = N + 1
        /\ \A i \in 0..(N - 1) :
             /\ w.pInfo[i + 1] = m_objModel[i + 1].matColorBuffer
             /\ w.pInfo[i + 1].kind = "mat"
             /\ w.pInfo[i + 1].id = i
        /\ w.pInfo[N + 1] = implMatBuf
        /\ layoutBind = LayoutBindings(N, Len(m_textures)) => w.descriptorCount = N + 1

\* C1 witness: two models and the implicit buffers exist, the layout was
\* created after them, and the set was written.
C1_Witness ==
  /\ lastOp = "updateDescriptorSet"
  /\ Len(m_objModel) = 2
  /\ implMatBuf.kind = "implicitMat"
  /\ WriteFor(1).descriptorCount = 3
  /\ Len(WriteFor(1).pInfo) = 3

\* C5 (the claim as stated): every array write updateDescriptorSet issues has
\* an array exactly as long as the count declared for its binding.
C5_ArrayWritesMatchDeclaredCounts ==
  \A i \in 1..Len(writes) :
    writes[i].dstBinding \in ArrayBindings =>
      Len(writes[i].pInfo) = DeclaredCount(layoutBind, writes[i].dstBinding)

\* Every texture in the registry is the dummy: no loaded model named a texture
\* file (each file named adds one mip-mapped texture).
NoModelReferencesTexture == \A i \in 1..Len(m_textures) : ~m_textures[i].mipmaps

\* C6 (the claim as stated): once the layout is created for a scene whose
\* models reference no texture, the registry holds exactly one texture, the 1x1
\* opaque white dummy, and binding 3 is declared with a count other than 0.
C6_TextureLessSceneHasOneWhiteTexture ==
  (layoutBind # <<>> /\ NoModelReferencesTexture) =>
    /\ Len(m_textures) = 1
    /\ m_textures[1].width = 1
    /\ m_textures[1].height = 1
    /\ m_textures[1].pixels = <<255, 255, 255, 255>>
    /\ DeclaredCount(layoutBind, 3) # 0

\* C7: after k loadModel calls there are k models and k instances, the
\* instance at position i has objIndex = i, below the model count; rasterize
\* finds the model of every instance it draws.
C7_ObjIndexIsPosition ==
  /\ Len(m_objModel) = Len(m_objInstance)
  /\ \A i \in 0..(Len(m_objInstance) - 1) :
       /\ m_objInstance[i + 1].objIndex = i
       /\ m_objInstance[i + 1].objIndex < Len(m_objModel)
  /\ lastOp = "rasterize" =>
       \A i \in 0..(Len(m_objInstance) - 1) :
         rasterCmds.draws[i + 1].vertexBuffer = m_objModel[i + 1].vertexBuffer

\* C7 witness: two models were loaded and rasterize drew both instances.
C7_Witness ==
  /\ lastOp = "rasterize"
  /\ Len(m_objInstance) = 2
  /\ m_objInstance[2].objIndex = 1
  /\ Len(rasterCmds.draws) = 2

\* The counts the registry would give a layout created now.
RegistryCounts(models, textures) ==
  [b \in 0..7 |-> CASE b = 1 -> Len(models) + 1
                    [] b = 3 -> Len(textures)
                    [] b \in {4, 5, 6} -> Len(models)
                    [] OTHER -> 1]
DeclaredCounts(bindings) == [b \in 0..7 |-> DeclaredCount(bindings, b)]

\* C8: createDescriptorSetLayout declares N + 1 for binding 1, T for binding 3,
\* N for bindings 4, 5, 6 and 1 for bindings 0, 2, 7, from the counts at the
\* call; no later step changes what is declared; after a later loadModel the
\* counts declared for bindings 1, 4, 5, 6 are not the registry's.
C8_LayoutCountsAreSnapshot ==
  [][/\ (layoutBind = <<>> /\ layoutBind' # <<>>) =>
          DeclaredCounts(layoutBind') = RegistryCounts(m_objModel, m_textures)
     /\ layoutBind # <<>> => layoutBind' = layoutBind
     /\ (layoutBind # <<>> /\ lastOp' = "loadModel") =>
          /\ DeclaredCounts(layoutBind') # RegistryCounts(m_objModel', m_textures')
          /\ DeclaredCount(layoutBind', 1) # Len(m_objModel') + 1
          /\ \A b \in {4, 5, 6} : DeclaredCount(layoutBind', b) # Len(m_objModel')]_vars

\* C8 witness: the layout was created with one model and one texture, then a
\* second model was loaded.
C8_Witness ==
  /\ layoutBind # <<>>
  /\ lastOp = "loadModel"
  /\ DeclaredCount(layoutBind, 1) = 2
  /\ DeclaredCount(layoutBind, 3) = 1
  /\ Len(m_objModel) = 2

\* C9: createImplictBuffers gives an empty primitive or material sequence one
\* default-valued entry, leaves a non-empty one unchanged, and uploads both
\* sequences, neither empty.
C9_ImplicitBuffersNeverEmpty ==
  [][lastOp' = "createImplictBuffers" =>
       /\ objImpl' = IF objImpl = <<>> THEN <<DefaultImplicit>> ELSE objImpl
       /\ implMat' = IF implMat = <<>> THEN <<DefaultMaterial>> ELSE implMat
       /\ implBuf'.data = objImpl'
       /\ implMatBuf'.data = implMat'
       /\ Len(implBuf'.data) >= 1
       /\ Len(implMatBuf'.data) >= 1]_vars

\* C9 witness: two spheres and no material were added; the upload holds the
\* two spheres and one default material.
C9_Witness ==
  /\ lastOp = "createImplictBuffers"
  /\ Len(objImpl) = 2
  /\ \A i \in 1..2 : objImpl[i].objType = "eSphere"
  /\ implBuf.data = objImpl
  /\ implMat = <<DefaultMaterial>>
  /\ implMatBuf.data = <<DefaultMaterial>>

\* The position of a call in a sequence of calls (0 when it is not made).
PosOf(calls, c) ==
  IF \E i \in 1..Len(calls) : calls[i] = c
    THEN CHOOSE i \in 1..Len(calls) : calls[i] = c /\ \A j \in 1..(i - 1) : calls[j] # c
    ELSE 0

\* C11: onResize recreates the offscreen target, updates the offscreen
\* descriptor set, updates the ray tracing output binding and then resets the
\* accumulation, in this order, leaving frame = -1 whatever it was; no other
\* operation than a raytrace tick changes the counter, and the next raytrace
\* tick leaves it at 0.
C11_ResizeResetsAccumulation ==
  [][/\ lastOp' = "onResize" =>
          /\ Len(resizeCalls') = 4
          /\ 1 = PosOf(resizeCalls', "m_offscreen.createFramebuffer")
          /\ 2 = PosOf(resizeCalls', "m_offscreen.updateDescriptorSet")
          /\ 3 = PosOf(resizeCalls', "m_raytrace.updateRtDescriptorSet")
          /\ 4 = PosOf(resizeCalls', "resetFrame")
          /\ frame' = -1
     /\ lastOp' \notin {"onResize", "raytrace"} => frame' = frame
     /\ (lastOp' = "raytrace" /\ frame = -1 /\ resizeCalls # <<>>) =>
          /\ frame' = 0
          /\ rtCall'.frame = 0]_vars

\* C11 witness: the last tick was skipped with the counter at m_maxFrames or
\* beyond, then the window was resized.
C11_Witness ==
  /\ lastOp = "onResize"
  /\ rtCall.frame >= maxFrames
  /\ ~rtCall.issued
  /\ frame = -1
  /\ resizeCalls = OnResizeCalls

\* C12: at every render tick that follows a createSceneDescriptionBuffer call
\* the scene description buffer holds one entry per Instance, in
\* Instance-sequence order, for the whole current Instance sequence, so every
\* instanceId pushed by rasterize addresses an entry of the buffer.
C12_SceneDescMirrorsInstances ==
  (lastOp = "rasterize" /\ m_sceneDesc # NullBuffer) =>
    /\ m_sceneDesc.data = m_objInstance
    /\ \A k \in 1..Len(rasterCmds.draws) :
         rasterCmds.draws[k].instanceId < Len(m_sceneDesc.data)

\* The position of each class of resource in the order the code releases them.
ReleaseRank(class) ==
  IF class = "pipeline" THEN 0
  ELSE IF class \in {"layout", "pool"} THEN 1
  ELSE IF class = "buffer" THEN 2
  ELSE IF class = "image" THEN 3
  ELSE 4

\* The position of each class in the order pipeline, layouts, pool, buffers,
\* images.
LayoutsFirstRank(class) ==
  IF class = "pipeline" THEN 0
  ELSE IF class = "layout" THEN 1
  ELSE IF class = "pool" THEN 2
  ELSE IF class = "buffer" THEN 3
  ELSE IF class = "image" THEN 4
  ELSE 5

\* The buffer and image handles the object holds.
HeldHandles ==
  ({CameraMatBuffer, m_sceneDesc, implBuf, implMatBuf}
     \cup UNION {{m_objModel[i].vertexBuffer, m_objModel[i].indexBuffer,
                  m_objModel[i].matColorBuffer, m_objModel[i].matIndexBuffer} :
                 i \in 1..Len(m_objModel)}
     \cup {TextureHandle(m_textures, i) : i \in 1..Len(m_textures)})
  \ {NullBuffer}

LastFiles == loadedFiles[Len(loadedFiles)]

\* The 1x1 magenta pixel of a texture whose file did not decode.
IsMagentaPixel(t) ==
  t.width = 1 /\ t.height = 1 /\ t.pixels = <<255, 0, 255, 255>>

\* C14: a loadModel call whose model names texture files appends exactly one
\* texture per filename, in filename order, whether or not the file decodes;
\* the texture of a file that does not decode is a 1x1 magenta pixel, and the
\* call still appends its Model and its Instance.
C14_OneTexturePerFilename ==
  [][(lastOp' = "loadModel" /\ loadedFiles' # loadedFiles /\ LastFiles' # <<>>) =>
       LET files == LastFiles'
           base  == Len(m_textures)
       IN  /\ Len(m_textures') = base + Len(files)
           /\ SubSeq(m_textures', 1, base) = m_textures
           /\ \A i \in 1..Len(files) :
                /\ files[i] = "bad" => IsMagentaPixel(m_textures'[base + i])
                /\ files[i] = "ok" => m_textures'[base + i].pixels = <<"decoded">>
           /\ Len(m_objModel') = Len(m_objModel) + 1
           /\ Len(m_objInstance') = Len(m_objInstance) + 1
           /\ SubSeq(m_objModel', 1, Len(m_objModel)) = m_objModel
           /\ SubSeq(m_objInstance', 1, Len(m_objInstance)) = m_objInstance]_vars

\* C14 witness: the second model named a file that does not decode and then
\* one that does; the magenta pixel and the decoded image follow the textures
\* of the first model, and both models and instances are registered.
C14_Witness ==
  /\ lastOp = "loadModel"
  /\ Len(loadedFiles) = 2
  /\ loadedFiles[1] # <<>>
  /\ LastFiles = <<"bad", "ok">>
  /\ IsMagentaPixel(m_textures[Len(m_textures) - 1])
  /\ m_textures[Len(m_textures)].pixels = <<"decoded">>
  /\ Len(m_objModel) = 2
  /\ Len(m_objInstance) = 2

\* C15: one rasterize call binds the graphics pipeline and the descriptor set
\* once, then issues one indexed draw per Instance in Instance-sequence order:
\* the draw at position i pushes instanceId = i, binds the vertex and index
\* buffers of the model named by the objIndex of instance i and draws the
\* nbIndices indices of that model; there are as many draws as Instances.
C15_OneDrawPerInstance ==
  lastOp = "rasterize" =>
    /\ rasterCmds.binds = <<"vkCmdBindPipeline", "vkCmdBindDescriptorSets">>
    /\ Len(rasterCmds.draws) = Len(m_objInstance)
    /\ \A i \in 0..(Len(m_objInstance) - 1) :
         LET draw  == rasterCmds.draws[i + 1]
             model == m_objModel[m_objInstance[i + 1].objIndex + 1]
         IN  /\ draw.instanceId = i
             /\ draw.vertexBuffer = model.vertexBuffer
             /\ draw.indexBuffer = model.indexBuffer
             /\ draw.indexCount = model.nbIndices

\* C15 witness: rasterize drew two instances whose models differ in index
\* count, the first with 6 indices and the second with 3.
C15_Witness ==
  /\ lastOp = "rasterize"
  /\ Len(rasterCmds.draws) = 2
  /\ rasterCmds.draws[1].indexCount = 6
  /\ rasterCmds.draws[2].indexCount = 3
  /\ rasterCmds.draws[2].instanceId = 1

\* The calls that record into the uploading command buffer.
RecordingCalls ==
  {"createBuffer vertex", "createBuffer index", "createBuffer mat", "createBuffer matIdx",
   "createTextureImages", "createBuffer sceneDesc", "createBuffer implicitObj",
   "createBuffer implicitMat"}

\* The calls that append to the registry.
RegistryAppends == {"m_objModel.emplace_back", "m_objInstance.emplace_back"}

\* C16: in loadModel, createSceneDescriptionBuffer and createImplictBuffers the
\* command buffer is created, recorded into, then submitted and waited on
\* once; finalizeAndReleaseStaging comes after that wait, loadModel appends its
\* Model and its Instance after it, and nothing is recorded after the wait, so
\* the operation does not return with its command buffer pending.
C16_StagingReleasedAfterWait ==
  lastOp \in {"loadModel", "createSceneDescriptionBuffer", "createImplictBuffers"} =>
    LET created  == PosOf(uploadCalls, "createCommandBuffer")
        waited   == PosOf(uploadCalls, "submitAndWait")
        released == PosOf(uploadCalls, "finalizeAndReleaseStaging")
    IN  /\ 0 < created
        /\ created < waited
        /\ waited < released
        /\ Cardinality({i \in 1..Len(uploadCalls) : uploadCalls[i] = "submitAndWait"}) = 1
        /\ \E i \in 1..Len(uploadCalls) : uploadCalls[i] \in RecordingCalls
        /\ \A i \in 1..Len(uploadCalls) :
             /\ uploadCalls[i] \in RecordingCalls => (created < i /\ i < waited)
             /\ uploadCalls[i] \in RegistryAppends => waited < i
        /\ lastOp = "loadModel" =>
             /\ 0 < PosOf(uploadCalls, "m_objModel.emplace_back")
             /\ 0 < PosOf(uploadCalls, "m_objInstance.emplace_back")
             /\ Len(m_objModel) = Len(loadedFiles)
             /\ Len(m_objInstance) = Len(loadedFiles)

\* C16 witness: all three upload operations have run, loadModel last.
C16_Witness ==
  /\ lastOp = "loadModel"
  /\ uploadCalls = LoadModelCalls
  /\ m_sceneDesc # NullBuffer
  /\ implBuf # NullBuffer
  /\ Len(m_objModel) = 1

\* C17: every updateUniformBuffer call records exactly three commands: a
\* buffer barrier from shader read to transfer write, the update of the camera
\* uniform buffer, and a buffer barrier from transfer write back to shader
\* read; both barriers name the camera uniform buffer, offset 0 and the size
\* of the update, which is the size of the CameraMatrices block.
C17_UpdateInsideBarrierPair ==
  lastOp = "updateUniformBuffer" =>
    /\ Len(uboCmds) = 3
    /\ uboCmds[1].cmd = "vkCmdPipelineBarrier"
    /\ uboCmds[1].srcAccessMask = "VK_ACCESS_SHADER_READ_BIT"
    /\ uboCmds[1].dstAccessMask = "VK_ACCESS_TRANSFER_WRITE_BIT"
    /\ uboCmds[2].cmd = "vkCmdUpdateBuffer"
    /\ uboCmds[2].buffer = CameraMatBuffer
    /\ uboCmds[2].offset = 0
    /\ uboCmds[2].size = SizeofCameraMatrices
    /\ uboCmds[3].cmd = "vkCmdPipelineBarrier"
    /\ uboCmds[3].srcAccessMask = "VK_ACCESS_TRANSFER_WRITE_BIT"
    /\ uboCmds[3].dstAccessMask = "VK_ACCESS_SHADER_READ_BIT"
    /\ \A i \in {1, 3} :
         /\ uboCmds[i].buffer = uboCmds[2].buffer
         /\ uboCmds[i].offset = 0
         /\ uboCmds[i].size = uboCmds[2].size

\* C17 witness: updateUniformBuffer ran on a loaded scene and recorded the
\* update between its two barriers.
C17_Witness ==
  /\ lastOp = "updateUniformBuffer"
  /\ Len(m_objModel) = 1
  /\ Len(uboCmds) = 3
  /\ uboCmds[2].cmd = "vkCmdUpdateBuffer"
  /\ uboCmds[2].data = HostUBO(camMatrix, camFov)

RECURSIVE TexturesBefore(_, _)
TexturesBefore(loads, i) ==
  IF i = 1
    THEN 0
    ELSE LET n == TexturesBefore(loads, i - 1)
         IN  IF loads[i - 1] = <<>> /\ n = 0 THEN 1 ELSE n + Len(loads[i - 1])

\* The global texture indices of the i-th model: txtOffset + local index.
TextureRange(i) ==
  {m_objInstance[i].txtOffset + l : l \in 0..(Len(loadedFiles[i]) - 1)}

\* C19: after any sequence of loadModel calls the txtOffset of each Instance
\* is the texture count at the start of its own load; txtOffset does not
\* decrease in Instance order; a model with k >= 1 texture filenames owns the
\* global indices txtOffset .. txtOffset + k - 1, all below the texture count,
\* holding the textures of its files in order; the ranges of different models
\* are disjoint and none contains the index of the white dummy texture.
C19_TextureRangesDisjoint ==
  /\ Len(m_objInstance) = Len(loadedFiles)
  /\ \A i \in 1..Len(m_objInstance) :
       /\ m_objInstance[i].txtOffset = TexturesBefore(loadedFiles, i)
       /\ i > 1 => m_objInstance[i - 1].txtOffset <= m_objInstance[i].txtOffset
       /\ \A g \in TextureRange(i) :
            /\ g < Len(m_textures)
            /\ m_textures[g + 1] = LoadTexture(loadedFiles[i][g - m_objInstance[i].txtOffset + 1])
            /\ (loadedFiles[1] = <<>>) => g # 0
       /\ \A j \in 1..Len(m_objInstance) :
            i # j => TextureRange(i) \cap TextureRange(j) = {}
  /\ (loadedFiles # <<>> /\ loadedFiles[1] = <<>>) => m_textures[1] = DummyTexture

\* C19 witness: a texture-less first model created the white dummy at index 0,
\* and the second model owns indices 1 and 2 of the three textures.
C19_Witness ==
  /\ Len(loadedFiles) = 2
  /\ loadedFiles[1] = <<>>
  /\ Len(loadedFiles[2]) = 2
  /\ m_textures[1] = DummyTexture
  /\ m_objInstance[2].txtOffset = 1
  /\ TextureRange(2) = {1, 2}
  /\ Len(m_textures) = 3

====================================================================
